---- MODULE Spec2Model ----
(***************************************************************************)
(* Model of the pool-scoped configuration engine NScopedConfig             *)
(* (src/scopedconfig/newscoped_config.go): the reflective merge            *)
(* (mergeIntoInherited, isEmpty), the document store it reads and writes,  *)
(* and the load/save operations layered on them.                           *)
(*                                                                         *)
(* A Go value is modelled as a pair (type descriptor, raw value), as a     *)
(* reflect.Value carries both.  Raw values:                                *)
(*   string -> TLA+ string, int -> Nat, bool -> BOOLEAN,                   *)
(*   time.Time -> Nat (0 is the zero time),                                *)
(*   map -> [isNil, m] with m a function from keys to raw values,          *)
(*   struct -> function from (lower-cased) field names to raw values.      *)
(* A stored document is a function from lower-cased field names to tagged  *)
(* BSON values [b |-> tag, v |-> payload].                                 *)
(***************************************************************************)
EXTENDS Naturals, Sequences, FiniteSets, TLC

VARIABLES
    cfg,      \* the engine: [AllowEmpty, ShallowMerge], fixed at construction
    store,    \* the collection: scope id -> entry ([exists, val])
    last,     \* the call that returned in the step just taken: its
              \* arguments and results
    pc,       \* per client: "idle", or the call it is inside, between that
              \* call's first and second access to the collection
    arg,      \* per client: the arguments of the call in progress
    prev,     \* per client: the entry the call in progress read first
              \* (poolValues of SaveMerge, defaultValues of the loads)
    race      \* history of the two-client SaveMerge scenario

vars == <<cfg, store, last, pc, arg, prev, race>>

----------------------------------------------------------------------------
(* Bounds *)

\* ints of the record values range over 0..MaxInt
MaxInt == 2
\* time values range over 0..MaxTime (0 is the zero time.Time)
MaxTime == 2

----------------------------------------------------------------------------
(* Type descriptors (reflect.Type) *)

StringT == [kind |-> "string"]
IntT == [kind |-> "int"]
BoolT == [kind |-> "bool"]
TimeT == [kind |-> "struct", isTime |-> TRUE]
PtrT(elem) == [kind |-> "ptr", elem |-> elem]
SliceT(elem) == [kind |-> "slice", elem |-> elem]
MapT(elem) == [kind |-> "map", elem |-> elem]
StructT(fields, types) ==
    [kind |-> "struct", isTime |-> FALSE, fields |-> fields, types |-> types]

\* strings.ToLower over the field names the clients use
ToLower(s) ==
    CASE s = "Foo" -> "foo"
      [] s = "FOO" -> "foo"
      [] s = "FooInherited" -> "fooinherited"
      [] s = "Env" -> "env"
      [] OTHER -> s

\* strings.HasSuffix(strings.ToLower(name), "inherited")
HasSuffixInherited(name) ==
    name \in {"fooinherited", "envinherited", "subinherited", "atinherited",
              "ninherited", "oninherited", "refinherited", "tagsinherited"}

\* strings.ToLower(fieldType.Name + "inherited")
PlusInherited(name) ==
    CASE name = "foo" -> "fooinherited"
      [] name = "env" -> "envinherited"
      [] name = "sub" -> "subinherited"
      [] name = "at" -> "atinherited"
      [] name = "n" -> "ninherited"
      [] name = "on" -> "oninherited"
      [] name = "ref" -> "refinherited"
      [] name = "tags" -> "tagsinherited"
      [] OTHER -> "none"

SeqToSet(s) == {s[i] : i \in DOMAIN s}

EmptyFcn == [k \in {} |-> ""]

\* reflect.Zero(t)
RECURSIVE Zero(_)
Zero(t) ==
    CASE t.kind = "string" -> ""
      [] t.kind = "int" -> 0
      [] t.kind = "bool" -> FALSE
      [] t.kind = "map" -> [isNil |-> TRUE, m |-> EmptyFcn]
      [] t.kind = "ptr" -> [isNil |-> TRUE, elem |-> Zero(t.elem)]
      [] t.kind = "slice" -> [isNil |-> TRUE, elems |-> <<>>]
      [] t.kind = "struct" ->
            IF t.isTime THEN 0
            ELSE [n \in SeqToSet(t.fields) |-> Zero(t.types[n])]

----------------------------------------------------------------------------
(* Emptiness policy *)

\* isEmpty without the AllowEmpty test: every zero value is empty
isEmptyAlwaysStrict(c, t, v) ==
    IF t.kind \in {"map", "ptr", "slice"} /\ v.isNil THEN TRUE
    ELSE IF t.kind = "slice" /\ Len(v.elems) = 0 THEN TRUE
    ELSE IF t.kind = "ptr" THEN v.elem = Zero(t.elem)
    ELSE v = Zero(t)

\* isEmpty: a nil container is empty; otherwise, unless AllowEmpty, a value
\* is empty when it is deeply equal to the zero value of its type.
isEmpty(c, t, v) ==
    IF t.kind \in {"map", "ptr", "slice"} /\ v.isNil THEN TRUE
    ELSE IF c.AllowEmpty THEN FALSE
    ELSE IF t.kind = "slice" /\ Len(v.elems) = 0 THEN TRUE
    ELSE IF t.kind = "ptr" THEN v.elem = Zero(t.elem)
    ELSE v = Zero(t)

----------------------------------------------------------------------------
(* Merge algorithm *)

\* the map case without its else branch: empty-valued keys are not deleted
MergeMapNoDelete(c, t, base, pool) ==
    LET set == {k \in DOMAIN pool.m : ~isEmpty(c, t.elem, pool.m[k])}
        keys == DOMAIN base.m \cup set
    IN  [val |-> [isNil |-> base.isNil /\ set = {},
                  m |-> [k \in keys |-> IF k \in set THEN pool.m[k] ELSE base.m[k]]],
         merged |-> set # {}]

\* case reflect.Map of mergeIntoInherited: every key of pool with a
\* non-empty value is set in base (allocating a nil base), every key with
\* an empty value is deleted from base.
MergeMap(c, t, base, pool) ==
    LET set == {k \in DOMAIN pool.m : ~isEmpty(c, t.elem, pool.m[k])}
        del == {k \in DOMAIN pool.m : isEmpty(c, t.elem, pool.m[k])}
        keys == (DOMAIN base.m \ del) \cup set
    IN  [val |-> [isNil |-> base.isNil /\ set = {},
                  m |-> [k \in keys |-> IF k \in set THEN pool.m[k] ELSE base.m[k]]],
         merged |-> set # {}]

\* the time.Time branch without its emptiness test
MergeTimeAlways(c, t, base, pool) ==
    [val |-> pool, merged |-> FALSE]

\* the time.Time branch: pool replaces base when non-empty; merged is not set
MergeTime(c, t, base, pool) ==
    [val |-> IF ~isEmpty(c, t, pool) THEN pool ELSE base, merged |-> FALSE]

\* the default branch with its test inverted
MergeLeafInverted(c, t, base, pool) ==
    IF isEmpty(c, t, pool) THEN [val |-> pool, merged |-> TRUE]
    ELSE [val |-> base, merged |-> FALSE]

\* the default branch: pool replaces base when non-empty
MergeLeaf(c, t, base, pool) ==
    IF ~isEmpty(c, t, pool) THEN [val |-> pool, merged |-> TRUE]
    ELSE [val |-> base, merged |-> FALSE]

\* base.Type().FieldByNameFunc(lower(name) = lower(field + "inherited")),
\* together with the test inheritedField.Type.Kind() == reflect.Bool
HasInheritedBool(t, name) ==
    /\ PlusInherited(name) \in SeqToSet(t.fields)
    /\ t.types[PlusInherited(name)].kind = "bool"

RECURSIVE mergeIntoInherited(_, _, _, _, _)
RECURSIVE MergeFields(_, _, _, _, _, _, _)

\* the field loop without its ShallowMerge branch: every field is recursed
\* into whatever the mode
RECURSIVE MergeFieldsAlwaysDeep(_, _, _, _, _, _, _)
MergeFieldsAlwaysDeep(c, t, acc, pool, setInherited, i, m) ==
    IF i > Len(t.fields) THEN [val |-> acc, merged |-> m]
    ELSE
      LET name == t.fields[i]
          ft == t.types[name]
      IN  IF HasSuffixInherited(name)
          THEN MergeFieldsAlwaysDeep(c, t, acc, pool, setInherited, i + 1, m)
          ELSE
            LET r == mergeIntoInherited(c, ft, acc[name], pool[name], setInherited)
                a1 == [acc EXCEPT ![name] = r.val]
                a2 == IF setInherited /\ HasInheritedBool(t, name)
                      THEN [a1 EXCEPT ![PlusInherited(name)] = ~r.merged]
                      ELSE a1
            IN  MergeFieldsAlwaysDeep(c, t, a2, pool, setInherited, i + 1,
                                      m \/ r.merged)

\* the field loop of the struct case, from field i on; acc is base as
\* modified so far and m the merged flag so far
MergeFields(c, t, acc, pool, setInherited, i, m) ==
    IF i > Len(t.fields) THEN [val |-> acc, merged |-> m]
    ELSE
      LET name == t.fields[i]
          ft == t.types[name]
      IN  IF HasSuffixInherited(name)
          THEN MergeFields(c, t, acc, pool, setInherited, i + 1, m)
          ELSE IF c.ShallowMerge
          THEN IF ~isEmpty(c, ft, pool[name])
               THEN MergeFields(c, t, [acc EXCEPT ![name] = pool[name]], pool,
                                setInherited, i + 1, TRUE)
               ELSE MergeFields(c, t, acc, pool, setInherited, i + 1, m)
          ELSE
            LET r == mergeIntoInherited(c, ft, acc[name], pool[name], setInherited)
                a1 == [acc EXCEPT ![name] = r.val]
                a2 == IF setInherited /\ HasInheritedBool(t, name)
                      THEN [a1 EXCEPT ![PlusInherited(name)] = ~r.merged]
                      ELSE a1
            IN  MergeFields(c, t, a2, pool, setInherited, i + 1, m \/ r.merged)

\* mergeIntoInherited(base, pool, setInherited): the merged value left in
\* base and the returned merged flag.  base and pool are values of the same
\* type with exported fields, so base.Set never panics and err is nil.
mergeIntoInherited(c, t, base, pool, setInherited) ==
    CASE t.kind = "struct" ->
            IF t.isTime THEN MergeTime(c, t, base, pool)
            ELSE MergeFields(c, t, base, pool, setInherited, 1, FALSE)
      [] t.kind = "map" -> MergeMap(c, t, base, pool)
      [] OTHER -> MergeLeaf(c, t, base, pool)

\* mergeInto(base, pool) = mergeIntoInherited(base, pool, true)
mergeInto(c, t, base, pool) == mergeIntoInherited(c, t, base, pool, TRUE)

----------------------------------------------------------------------------
(* BSON encoding of values (bson.Marshal / bson.Raw.Unmarshal) *)

EmptyDoc == [b |-> "doc", v |-> EmptyFcn]

\* the element written for a nil pointer
Null == [b |-> "null", v |-> 0]

\* The document element written for a Go value: field names are the
\* lower-cased Go names, a nil map is written as an empty document, a nil
\* slice as an empty array, a nil pointer as null and any other pointer as
\* the value it points to.
RECURSIVE Marshal(_, _)
Marshal(t, v) ==
    CASE t.kind = "string" -> [b |-> "str", v |-> v]
      [] t.kind = "int" -> [b |-> "int", v |-> v]
      [] t.kind = "bool" -> [b |-> "bool", v |-> v]
      [] t.kind = "map" ->
            [b |-> "doc", v |-> [k \in DOMAIN v.m |-> Marshal(t.elem, v.m[k])]]
      [] t.kind = "ptr" -> IF v.isNil THEN Null ELSE Marshal(t.elem, v.elem)
      [] t.kind = "slice" ->
            [b |-> "arr",
             v |-> [i \in DOMAIN v.elems |-> Marshal(t.elem, v.elems[i])]]
      [] t.kind = "struct" ->
            IF t.isTime THEN [b |-> "date", v |-> v]
            ELSE [b |-> "doc",
                  v |-> [n \in SeqToSet(t.fields) |-> Marshal(t.types[n], v[n])]]

\* whether an element of BSON kind e.b can be read into a target of type t
\* (null leaves the zero value in any target; a number is read into a
\* boolean target and a boolean into a number target)
RECURSIVE Decodable(_, _)
Decodable(t, e) ==
    CASE t.kind = "string" -> e.b = "str"
      [] t.kind = "int" -> e.b \in {"int", "bool"}
      [] t.kind = "bool" -> e.b \in {"bool", "int"}
      [] t.kind = "map" -> e.b = "doc"
      [] t.kind = "ptr" -> Decodable(t.elem, e)
      [] t.kind = "slice" -> e.b = "arr"
      [] t.kind = "struct" -> IF t.isTime THEN e.b = "date" ELSE e.b = "doc"

\* Unmarshal into a target of type t: the target is reset to its zero value,
\* then every stored field the type declares is read; a map target is
\* allocated (never nil) once a document is read into it, a slice target
\* once an array is, and a pointer target once a value other than null is.
RECURSIVE Unmarshal(_, _)
Unmarshal(t, e) ==
    IF ~Decodable(t, e) THEN Zero(t)
    ELSE CASE t.kind = "map" ->
                [isNil |-> FALSE,
                 m |-> [k \in {x \in DOMAIN e.v : Decodable(t.elem, e.v[x])} |->
                            Unmarshal(t.elem, e.v[k])]]
           [] t.kind = "int" /\ e.b = "bool" -> IF e.v THEN 1 ELSE 0
           [] t.kind = "bool" /\ e.b = "int" -> e.v # 0
           [] t.kind = "ptr" ->
                [isNil |-> FALSE, elem |-> Unmarshal(t.elem, e)]
           [] t.kind = "slice" ->
                [isNil |-> FALSE,
                 elems |-> [i \in DOMAIN e.v |-> Unmarshal(t.elem, e.v[i])]]
           [] t.kind = "struct" /\ ~t.isTime ->
                [n \in SeqToSet(t.fields) |->
                    IF n \in DOMAIN e.v THEN Unmarshal(t.types[n], e.v[n])
                    ELSE Zero(t.types[n])]
           [] OTHER -> e.v

----------------------------------------------------------------------------
(* The collection: one entry per scope id *)

\* nScopedConfigEntry{Pool, Val}; NoEntry stands for mgo.ErrNotFound
NoEntry == [exists |-> FALSE, val |-> EmptyDoc]
Entry(doc) == [exists |-> TRUE, val |-> doc]

\* coll.UpsertId(pool, {"$set": {"val.<name>": value}})
SetDocField(e, name, bv) ==
    LET d == e.val.v
    IN  Entry([b |-> "doc",
               v |-> [k \in DOMAIN d \cup {name} |-> IF k = name THEN bv ELSE d[k]]])

\* coll.UpdateId(pool, {"$unset": {"val.<name>": ""}}) on an existing entry
UnsetDocField(e, name) ==
    LET d == e.val.v
    IN  Entry([b |-> "doc", v |-> [k \in DOMAIN d \ {name} |-> d[k]]])

\* the filter of SetFieldAtomic's upsert: the entry exists and
\* val.<name> is "" or does not exist
AtomicMatch(e, name) ==
    /\ e.exists
    /\ \/ name \notin DOMAIN e.val.v
       \/ e.val.v[name].b = "str" /\ e.val.v[name].v = ""

----------------------------------------------------------------------------
(* The consumer's record type and the inputs of the calls *)

\* type Config struct { Foo string; FooInherited bool; Env map[string]string }
ConfigT ==
    StructT(<<"foo", "fooinherited", "env">>,
            [foo |-> StringT, fooinherited |-> BoolT, env |-> MapT(StringT)])

BaseScope == ""
Scopes == {"", "P"}
PoolScopes == {"", "P", "Q"}

Strs == {"", "a", "b"}
EnvKeys == {"k1"}
EnvStrs == {"", "a"}

NilMap == [isNil |-> TRUE, m |-> EmptyFcn]
MapsOver(keys, vals) ==
    {NilMap} \cup
    UNION {{[isNil |-> FALSE, m |-> f] : f \in [d -> vals]} : d \in SUBSET keys}

\* every Config value over the small domains
ConfigValues ==
    {[foo |-> f, fooinherited |-> i, env |-> e] :
        f \in Strs, i \in BOOLEAN, e \in MapsOver(EnvKeys, EnvStrs)}

\* the Config values the clients save in the full engine scenario
SaveValues ==
    {Zero(ConfigT),
     [foo |-> "a", fooinherited |-> FALSE, env |-> NilMap],
     [foo |-> "", fooinherited |-> FALSE,
      env |-> [isNil |-> FALSE, m |-> [k \in {"k1"} |-> ""]]],
     [foo |-> "b", fooinherited |-> TRUE,
      env |-> [isNil |-> FALSE, m |-> [k \in {"k1"} |-> "a"]]]}

\* the Config values of the two racing SaveMerge calls
RaceValues ==
    {Zero(ConfigT),
     [foo |-> "a", fooinherited |-> FALSE, env |-> NilMap],
     [foo |-> "", fooinherited |-> FALSE,
      env |-> [isNil |-> FALSE, m |-> [k \in {"k1"} |-> "a"]]],
     [foo |-> "b", fooinherited |-> TRUE,
      env |-> [isNil |-> FALSE, m |-> [k \in {"k1"} |-> ""]]]}

\* the Config values of the scenario with two pools
PoolConfigValues ==
    {[foo |-> f, fooinherited |-> FALSE, env |-> NilMap] : f \in {"", "a"}}

\* what the caller's out (or base) variable may hold before a load
Priors ==
    {Zero(ConfigT),
     [foo |-> "b", fooinherited |-> FALSE,
      env |-> [isNil |-> FALSE, m |-> [k \in {"k1"} |-> "a"]]]}

\* a call argument of type interface{}: a type and a value
Typed(t, v) == [t |-> t, v |-> v]
NotAStruct == Typed(StringT, "a")
SaveInputs(V) == {Typed(ConfigT, v) : v \in V} \cup {NotAStruct}

\* field names as the callers spell them, and the values they set
FieldNames == {"foo", "Foo"}
FieldValues == {Typed(StringT, x) : x \in Strs}
PoolFieldNames == {"Foo"}
PoolFieldValues == {Typed(StringT, x) : x \in {"", "a"}}

\* what the caller's allVal may be before LoadPools: a pointer to a map or
\* a map, nil, allocated and empty, or holding an entry of an earlier call
StaleAll == [s \in {"Z"} |-> [foo |-> "b", fooinherited |-> FALSE, env |-> NilMap]]
AllIns ==
    {[isPtr |-> TRUE, isNil |-> FALSE, m |-> StaleAll],
     [isPtr |-> FALSE, isNil |-> TRUE, m |-> EmptyFcn],
     [isPtr |-> FALSE, isNil |-> FALSE, m |-> EmptyFcn],
     [isPtr |-> FALSE, isNil |-> FALSE, m |-> StaleAll]}

Clients == {1, 2}

----------------------------------------------------------------------------
(* Results of the operations, as functions of the collection *)

\* Save: coll.UpsertId(pool, {"_id": pool, "val": val}); a value that is not
\* a struct is refused
SaveResult(st, pool, x) ==
    IF x.t.kind # "struct"
    THEN [store |-> st, err |-> "a struct type is required as value"]
    ELSE [store |-> [st EXCEPT ![pool] = Entry(Marshal(x.t, x.v))], err |-> "nil"]

\* SaveMerge that merges into a fresh value instead of the stored one
MergedIntoZero(c, e, x) ==
    mergeIntoInherited(c, x.t, Zero(x.t), x.v, FALSE).val

\* SaveMerge that merges with inheritance tracking, as Load does
MergedWithInheritance(c, e, x) ==
    LET previousValue == IF e.exists THEN Unmarshal(x.t, e.val) ELSE Zero(x.t)
    IN  mergeIntoInherited(c, x.t, previousValue, x.v, TRUE).val

\* SaveMerge after FindId(pool) returned e: previousValue is the stored
\* value (zero if not found), val is merged into it without inheritance
\* tracking, and the result is handed to Save
MergedForSave(c, e, x) ==
    LET previousValue == IF e.exists THEN Unmarshal(x.t, e.val) ELSE Zero(x.t)
    IN  mergeIntoInherited(c, x.t, previousValue, x.v, FALSE).val

SaveMergeResult(c, st, e, pool, x) ==
    IF x.t.kind # "struct"
    THEN [store |-> st, err |-> "received object must be a struct"]
    ELSE SaveResult(st, pool, Typed(x.t, MergedForSave(c, e, x)))

\* SetField: an unconditional upsert of val.<lower(name)>
SetFieldResult(st, pool, name, x) ==
    [store |-> [st EXCEPT ![pool] =
                    SetDocField(st[pool], ToLower(name), Marshal(x.t, x.v))],
     err |-> "nil"]

\* SetFieldAtomic without its filter: the field is set whatever it holds
SetFieldAtomicUnguarded(st, pool, name, x) ==
    [store |-> [st EXCEPT ![pool] =
                    SetDocField(st[pool], ToLower(name), Marshal(x.t, x.v))],
     applied |-> TRUE, err |-> "nil"]

\* SetFieldAtomic: the upsert updates the matching entry; with no match it
\* inserts, which fails with a duplicate key when the entry exists
SetFieldAtomicResult(st, pool, name, x) ==
    IF AtomicMatch(st[pool], ToLower(name)) \/ ~st[pool].exists
    THEN [store |-> [st EXCEPT ![pool] =
                        SetDocField(st[pool], ToLower(name), Marshal(x.t, x.v))],
          applied |-> TRUE, err |-> "nil"]
    ELSE [store |-> st, applied |-> FALSE, err |-> "nil"]

\* RemoveField: $unset of val.<lower(name)>; mgo.ErrNotFound is swallowed
RemoveFieldResult(st, pool, name) ==
    IF st[pool].exists
    THEN [store |-> [st EXCEPT ![pool] = UnsetDocField(st[pool], ToLower(name))],
          err |-> "nil"]
    ELSE [store |-> st, err |-> "nil"]

\* Remove that swallows mgo.ErrNotFound the way RemoveField does
RemoveSwallowingNotFound(st, pool) ==
    [store |-> [st EXCEPT ![pool] = NoEntry], err |-> "nil"]

\* Remove: coll.RemoveId(pool), whose error is returned as it is
RemoveResult(st, pool) ==
    IF st[pool].exists
    THEN [store |-> [st EXCEPT ![pool] = NoEntry], err |-> "nil"]
    ELSE [store |-> st, err |-> "not found"]

\* LoadWithBase that merges the pool entry onto the caller's base value
LoadOntoCallerBase(c, defaultValues, poolValues, t, pool, hasBase, baseIn, outIn) ==
    LET baseValue == IF defaultValues.exists THEN Unmarshal(t, defaultValues.val)
                     ELSE IF hasBase THEN baseIn ELSE Zero(t)
        poolValue == IF poolValues.exists THEN Unmarshal(t, poolValues.val) ELSE outIn
    IN  IF pool = BaseScope
        THEN [out |-> baseValue, base |-> baseValue, err |-> "nil"]
        ELSE [out |-> mergeInto(c, t, baseValue, poolValue).val,
              base |-> baseValue, err |-> "nil"]

\* LoadWithBase(pool, baseVal, poolVal).  defaultValues is what
\* FindId("") returned and poolValues what the later FindId(pool) returned
\* (not read when pool is ""); hasBase: baseVal is not nil; baseIn and outIn
\* are what *baseVal and *poolVal hold before the call.  Returns what they
\* hold after it.
LoadWithBaseResult(c, defaultValues, poolValues, t, pool, hasBase, baseIn, outIn) ==
    LET baseValue == IF defaultValues.exists THEN Unmarshal(t, defaultValues.val)
                     ELSE IF hasBase THEN baseIn ELSE Zero(t)
    IN  IF pool = BaseScope
        THEN [out |-> baseValue, base |-> baseValue, err |-> "nil"]
        ELSE
          LET baseCopy == IF defaultValues.exists
                          THEN Unmarshal(t, defaultValues.val) ELSE Zero(t)
              poolValue == IF poolValues.exists THEN Unmarshal(t, poolValues.val)
                           ELSE outIn
          IN  [out |-> mergeInto(c, t, baseCopy, poolValue).val,
               base |-> baseValue, err |-> "nil"]

\* Load(pool, poolVal) = LoadWithBase(pool, nil, poolVal)
LoadResult(c, defaultValues, poolValues, t, pool, outIn) ==
    LoadWithBaseResult(c, defaultValues, poolValues, t, pool, FALSE, Zero(t), outIn)

\* LoadBase(poolVal) = LoadWithBase("", nil, poolVal)
LoadBaseResult(c, defaultValues, t, outIn) ==
    LoadWithBaseResult(c, defaultValues, NoEntry, t, BaseScope, FALSE, Zero(t), outIn)

\* the query of LoadPools with the $in branch taken for every filter
FoundIdsNamed(st, filterPools) ==
    {s \in DOMAIN st : s \in filterPools /\ st[s].exists}

\* the ids the query of LoadPools returns: every stored id but "" for an
\* empty filter, the stored ids named by the filter otherwise
FoundIds(st, filterPools) ==
    IF filterPools = {}
    THEN {s \in DOMAIN st : s # BaseScope /\ st[s].exists}
    ELSE {s \in DOMAIN st : s \in filterPools /\ st[s].exists}

\* LoadPools(filterPools, allVal).  allVal is a map (isPtr FALSE) or a
\* pointer to a map (isPtr TRUE) holding allIn = [isNil, m] before the call;
\* defaultValues is what FindId("") returned and st the collection the
\* later query runs on.
LoadPoolsResult(c, defaultValues, st, t, filterPools, isPtr, allIn) ==
    IF ~isPtr /\ allIn.isNil
    THEN [all |-> allIn, err |-> "uninitialized map"]
    ELSE
      LET start == IF isPtr THEN EmptyFcn ELSE allIn.m
          baseOf == IF defaultValues.exists THEN Unmarshal(t, defaultValues.val)
                    ELSE Zero(t)
          ids == FoundIds(st, filterPools)
          merged(s) == mergeInto(c, t, baseOf, Unmarshal(t, st[s].val)).val
          keys == DOMAIN start \cup {BaseScope} \cup ids
      IN  [all |-> [isNil |-> FALSE,
                    m |-> [s \in keys |->
                            IF s \in ids THEN merged(s)
                            ELSE IF s = BaseScope THEN baseOf
                            ELSE start[s]]],
           err |-> "nil"]

----------------------------------------------------------------------------
(* State machine *)

Configs == [AllowEmpty : BOOLEAN, ShallowMerge : BOOLEAN]

NoCall == [op |-> "none"]
NoArg == [pool |-> BaseScope, x |-> NotAStruct]

\* the state after FindNScopedConfig on an empty collection, over scope ids S
InitOver(S) ==
    /\ cfg \in Configs
    /\ store = [s \in S |-> NoEntry]
    /\ last = NoCall
    /\ pc = [p \in Clients |-> "idle"]
    /\ arg = [p \in Clients |-> NoArg]
    /\ prev = [p \in Clients |-> NoEntry]
    /\ race = [overlap |-> FALSE]

clientVars == <<pc, arg, prev, race>>

\* last holds what the call that returned in the step just taken returned;
\* a scenario that observes the loads only keeps no record of the writes
Recorded(detail, r) == IF detail THEN r ELSE NoCall

\* a call of client p has read the collection once and will come back to it:
\* its arguments and the entry it read are kept until it does
Suspend(p, at, a, e) ==
    /\ pc' = [pc EXCEPT ![p] = at]
    /\ arg' = [arg EXCEPT ![p] = a]
    /\ prev' = [prev EXCEPT ![p] = e]
    /\ UNCHANGED race

\* the call of client p returns
Return(p) ==
    /\ pc' = [pc EXCEPT ![p] = "idle"]
    /\ arg' = [arg EXCEPT ![p] = NoArg]
    /\ prev' = [prev EXCEPT ![p] = NoEntry]
    /\ UNCHANGED race

(* Calls that touch the collection once: one step each *)

SaveOver(S, V, detail) ==
    \E pool \in S, x \in SaveInputs(V) :
        LET r == SaveResult(store, pool, x)
        IN  /\ store' = r.store
            /\ last' = Recorded(detail, [op |-> "Save", pool |-> pool, err |-> r.err])
            /\ UNCHANGED <<cfg, clientVars>>

SetFieldOver(S, N, FV, detail) ==
    \E pool \in S, name \in N, x \in FV :
        LET r == SetFieldResult(store, pool, name, x)
        IN  /\ store' = r.store
            /\ last' = Recorded(detail, [op |-> "SetField", pool |-> pool,
                                         name |-> ToLower(name), err |-> r.err])
            /\ UNCHANGED <<cfg, clientVars>>

SetFieldAtomicOver(S, N, FV, detail) ==
    \E pool \in S, name \in N, x \in FV :
        LET r == SetFieldAtomicResult(store, pool, name, x)
        IN  /\ store' = r.store
            /\ last' = Recorded(detail, [op |-> "SetFieldAtomic", pool |-> pool,
                                         name |-> ToLower(name), value |-> x.v,
                                         applied |-> r.applied, err |-> r.err])
            /\ UNCHANGED <<cfg, clientVars>>

RemoveFieldOver(S, N, detail) ==
    \E pool \in S, name \in N :
        LET r == RemoveFieldResult(store, pool, name)
        IN  /\ store' = r.store
            /\ last' = Recorded(detail, [op |-> "RemoveField", pool |-> pool,
                                         name |-> ToLower(name), err |-> r.err])
            /\ UNCHANGED <<cfg, clientVars>>

RemoveOver(S, detail) ==
    \E pool \in S :
        LET r == RemoveResult(store, pool)
        IN  /\ store' = r.store
            /\ last' = Recorded(detail, [op |-> "Remove", pool |-> pool, err |-> r.err])
            /\ UNCHANGED <<cfg, clientVars>>

(* SaveMerge touches the collection twice, FindId(pool) and then Save, and
   other calls may run in between: two steps *)

\* SaveMerge of client p up to and including coll.FindId(pool).One; a value
\* that is not a struct is refused before the collection is read
SaveMergeFindOver(p, S, V, detail) ==
    /\ pc[p] = "idle"
    /\ \E pool \in S, x \in SaveInputs(V) :
        IF x.t.kind # "struct"
        THEN /\ last' = Recorded(detail, [op |-> "SaveMerge", pool |-> pool,
                                  err |-> SaveMergeResult(cfg, store, store[pool],
                                                          pool, x).err])
             /\ UNCHANGED <<cfg, store, clientVars>>
        ELSE /\ Suspend(p, "merging", [pool |-> pool, x |-> x], store[pool])
             /\ last' = NoCall
             /\ UNCHANGED <<cfg, store>>

\* the rest of SaveMerge: the merge into the entry that was read, and Save
SaveMergeSaveOver(p, detail) ==
    /\ pc[p] = "merging"
    /\ LET r == SaveMergeResult(cfg, store, prev[p], arg[p].pool, arg[p].x)
       IN  /\ store' = r.store
           /\ last' = Recorded(detail, [op |-> "SaveMerge", pool |-> arg[p].pool,
                                        err |-> r.err])
    /\ Return(p)
    /\ UNCHANGED cfg

----------------------------------------------------------------------------
(* The writers that touch the collection once, over two scopes.  SaveMerge,
   whose result is written by Save, runs in the scenarios further down. *)

Save == SaveOver(Scopes, SaveValues, TRUE)
SetField == SetFieldOver(Scopes, FieldNames, FieldValues, TRUE)
SetFieldAtomic == SetFieldAtomicOver(Scopes, FieldNames, FieldValues, TRUE)
RemoveField == RemoveFieldOver(Scopes, FieldNames, TRUE)
Remove == RemoveOver(Scopes, TRUE)

Init == InitOver(Scopes)

Next ==
    \/ Save
    \/ SetField
    \/ SetFieldAtomic
    \/ RemoveField
    \/ Remove

Spec == Init /\ [][Next]_vars

----------------------------------------------------------------------------
(* The loads: Save, SetField and Remove build the collection, holding any
   Config value at the pool scope, and one client reads it.  A load of a pool touches the
   collection twice, FindId("") and then FindId(pool), and the writes may
   run in between: two steps.  A load of scope "" reads once. *)

\* the client that loads
Readers == {1}

\* the Config values saved at scope ""
BaseValues ==
    {Zero(ConfigT),
     [foo |-> "a", fooinherited |-> FALSE,
      env |-> [isNil |-> FALSE, m |-> [k \in {"k1"} |-> "a"]]],
     [foo |-> "b", fooinherited |-> TRUE, env |-> NilMap]}

SaveBase == SaveOver({BaseScope}, BaseValues, FALSE)
SavePool == SaveOver(Scopes \ {BaseScope}, ConfigValues, FALSE)
RemoveAny == RemoveOver(Scopes, FALSE)

\* SetField on the pool scope, which leaves entries that hold one field only
SetPoolField ==
    SetFieldOver(Scopes \ {BaseScope}, PoolFieldNames, PoolFieldValues, FALSE)

\* the arguments of a load, kept while it waits for its second read
LoadArgs(pool, hasBase, baseIn, outIn) ==
    [pool |-> pool,
     x |-> [hasBase |-> hasBase, baseIn |-> baseIn, outIn |-> outIn]]

\* Load(pool, &out) of client p up to and including FindId(""); with pool ""
\* the call returns here
LoadFindBy(p) ==
    /\ pc[p] = "idle"
    /\ \E pool \in Scopes, outIn \in Priors :
        IF pool = BaseScope
        THEN LET r == LoadResult(cfg, store[BaseScope], NoEntry, ConfigT, pool, outIn)
             IN  /\ last' = [op |-> "Load", pool |-> pool, outIn |-> outIn,
                             defaultValues |-> store[BaseScope],
                             out |-> r.out, err |-> r.err]
                 /\ UNCHANGED <<cfg, store, clientVars>>
        ELSE /\ Suspend(p, "loading", LoadArgs(pool, FALSE, Zero(ConfigT), outIn),
                        store[BaseScope])
             /\ last' = NoCall
             /\ UNCHANGED <<cfg, store>>

\* the rest of Load: FindId(pool), the merge onto the base that was read
LoadMergeBy(p) ==
    /\ pc[p] = "loading"
    /\ LET pool == arg[p].pool
           outIn == arg[p].x.outIn
           r == LoadResult(cfg, prev[p], store[pool], ConfigT, pool, outIn)
       IN  last' = [op |-> "Load", pool |-> pool, outIn |-> outIn,
                    defaultValues |-> prev[p], out |-> r.out, err |-> r.err]
    /\ Return(p)
    /\ UNCHANGED <<cfg, store>>

\* LoadBase(&out): one read
LoadBase ==
    \E outIn \in Priors :
        LET r == LoadBaseResult(cfg, store[BaseScope], ConfigT, outIn)
        IN  /\ last' = [op |-> "LoadBase", pool |-> BaseScope, outIn |-> outIn,
                        defaultValues |-> store[BaseScope],
                        out |-> r.out, err |-> r.err]
            /\ UNCHANGED <<cfg, store, clientVars>>

\* LoadWithBase(pool, &base, &out), with a base the caller supplies, up to
\* and including FindId("")
LoadWithBaseFindBy(p) ==
    /\ pc[p] = "idle"
    /\ \E pool \in Scopes, baseIn \in Priors, outIn \in Priors :
        IF pool = BaseScope
        THEN LET r == LoadWithBaseResult(cfg, store[BaseScope], NoEntry, ConfigT,
                                         pool, TRUE, baseIn, outIn)
             IN  /\ last' = [op |-> "LoadWithBase", pool |-> pool,
                             baseIn |-> baseIn, outIn |-> outIn,
                             defaultValues |-> store[BaseScope],
                             out |-> r.out, base |-> r.base, err |-> r.err]
                 /\ UNCHANGED <<cfg, store, clientVars>>
        ELSE /\ Suspend(p, "loadingWithBase", LoadArgs(pool, TRUE, baseIn, outIn),
                        store[BaseScope])
             /\ last' = NoCall
             /\ UNCHANGED <<cfg, store>>

\* the rest of LoadWithBase
LoadWithBaseMergeBy(p) ==
    /\ pc[p] = "loadingWithBase"
    /\ LET pool == arg[p].pool
           a == arg[p].x
           r == LoadWithBaseResult(cfg, prev[p], store[pool], ConfigT, pool,
                                   TRUE, a.baseIn, a.outIn)
       IN  last' = [op |-> "LoadWithBase", pool |-> pool, baseIn |-> a.baseIn,
                    outIn |-> a.outIn, defaultValues |-> prev[p],
                    out |-> r.out, base |-> r.base, err |-> r.err]
    /\ Return(p)
    /\ UNCHANGED <<cfg, store>>

LoadFind == \E p \in Readers : LoadFindBy(p)
LoadMerge == \E p \in Readers : LoadMergeBy(p)
LoadWithBaseFind == \E p \in Readers : LoadWithBaseFindBy(p)
LoadWithBaseMerge == \E p \in Readers : LoadWithBaseMergeBy(p)

LoadNext ==
    \/ SaveBase
    \/ SavePool
    \/ RemoveAny
    \/ SetPoolField
    \/ LoadFind
    \/ LoadMerge
    \/ LoadBase
    \/ LoadWithBaseFind
    \/ LoadWithBaseMerge

SpecLoad == Init /\ [][LoadNext]_vars

----------------------------------------------------------------------------
(* The merge on its own: records of one field and its companion flag, one
   record type per kind of field *)

\* struct { X int; Y int }
SubT == StructT(<<"x", "y">>, [x |-> IntT, y |-> IntT])

MergeFieldNames == {"foo", "n", "on", "ref", "tags", "sub", "env", "at"}

FieldTypeOf(f) ==
    CASE f = "foo" -> StringT
      [] f = "n" -> IntT
      [] f = "on" -> BoolT
      [] f = "ref" -> PtrT(IntT)
      [] f = "tags" -> SliceT(IntT)
      [] f = "sub" -> SubT
      [] f = "env" -> MapT(IntT)
      [] f = "at" -> TimeT

\* struct { F <kind>; FInherited bool }
RecordTypeOf(f) ==
    StructT(<<f, PlusInherited(f)>>,
            [n \in {f, PlusInherited(f)} |-> IF n = f THEN FieldTypeOf(f) ELSE BoolT])

Ints == 0..MaxInt
Times == 0..MaxTime
IntMapKeys == {"a", "b", "c"}

FieldValuesOf(f) ==
    CASE f = "foo" -> Strs
      [] f = "n" -> Ints
      [] f = "on" -> BOOLEAN
      [] f = "ref" -> {Zero(PtrT(IntT))} \cup {[isNil |-> FALSE, elem |-> i] : i \in Ints}
      [] f = "tags" -> {Zero(SliceT(IntT)), [isNil |-> FALSE, elems |-> <<>>],
                        [isNil |-> FALSE, elems |-> <<0>>],
                        [isNil |-> FALSE, elems |-> <<1>>]}
      [] f = "sub" -> [x : Ints, y : Ints]
      [] f = "env" -> MapsOver(IntMapKeys, Ints)
      [] f = "at" -> Times

RecordValuesOf(f) ==
    {[n \in {f, PlusInherited(f)} |-> IF n = f THEN v ELSE i] :
        v \in FieldValuesOf(f), i \in BOOLEAN}

\* one call mergeIntoInherited(base, pool, setInherited) on two records of
\* one type, on a fresh engine
Merge ==
    /\ last = NoCall
    /\ \A p \in Clients : pc[p] = "idle"
    /\ \E f \in MergeFieldNames, setInherited \in BOOLEAN :
      \E base \in RecordValuesOf(f), pool \in RecordValuesOf(f) :
        LET r == mergeIntoInherited(cfg, RecordTypeOf(f), base, pool, setInherited)
        IN  /\ last' = [op |-> "merge", field |-> f, base |-> base, pool |-> pool,
                        setInherited |-> setInherited, out |-> r.val,
                        merged |-> r.merged]
            /\ UNCHANGED <<cfg, store, clientVars>>

MergeNext == Merge

SpecMerge == Init /\ [][MergeNext]_vars

----------------------------------------------------------------------------
(* The merge on its own and as SaveMerge applies it to a saved entry, over
   the same one-field records *)

AccumScope == "P"

\* the kinds of field the stored documents of this scenario hold
AccumFieldNames == {"foo", "n", "on", "sub", "env", "at"}

\* the client that runs SaveMerge
Accumulators == {1}

\* Save(AccumScope, v) on the empty collection
AccumSave ==
    /\ last = NoCall
    /\ ~store[AccumScope].exists
    /\ \E f \in AccumFieldNames :
      \E v \in RecordValuesOf(f) :
        LET r == SaveResult(store, AccumScope, Typed(RecordTypeOf(f), v))
        IN  /\ store' = r.store
            /\ last' = [op |-> "Save", pool |-> AccumScope, field |-> f,
                        err |-> r.err]
            /\ UNCHANGED <<cfg, clientVars>>

\* SaveMerge(AccumScope, v) of client p up to and including FindId, on the
\* empty collection or after the Save
AccumSaveMergeFindBy(p) ==
    /\ pc[p] = "idle"
    /\ \E f \in AccumFieldNames :
        /\ last.op = "none" \/ (last.op = "Save" /\ last.field = f)
        /\ \E v \in RecordValuesOf(f) :
            /\ Suspend(p, "merging",
                       [pool |-> AccumScope, x |-> Typed(RecordTypeOf(f), v),
                        field |-> f],
                       store[AccumScope])
            /\ last' = NoCall
            /\ UNCHANGED <<cfg, store>>

\* the rest of that SaveMerge; read is the entry FindId returned and before
\* the entry stored when Save runs
AccumSaveMergeSaveBy(p) ==
    /\ pc[p] = "merging"
    /\ LET r == SaveMergeResult(cfg, store, prev[p], arg[p].pool, arg[p].x)
       IN  /\ store' = r.store
           /\ last' = [op |-> "SaveMerge", pool |-> arg[p].pool,
                       field |-> arg[p].field, x |-> arg[p].x.v,
                       read |-> prev[p], before |-> store[arg[p].pool],
                       err |-> r.err]
    /\ Return(p)
    /\ UNCHANGED cfg

AccumSaveMergeFind == \E p \in Accumulators : AccumSaveMergeFindBy(p)
AccumSaveMergeSave == \E p \in Accumulators : AccumSaveMergeSaveBy(p)

AccumNext ==
    \/ Merge
    \/ AccumSave
    \/ AccumSaveMergeFind
    \/ AccumSaveMergeSave

SpecAccum == Init /\ [][AccumNext]_vars

----------------------------------------------------------------------------
(* The round trip: Save at a pool scope, then Load of that scope with no
   entry at scope "", over the one-field records of every kind and the
   Config record.  Load touches the collection twice and the writes may
   run in between: two steps *)

TripScope == "P"

\* the record types saved and loaded
TripTypes == {RecordTypeOf(f) : f \in MergeFieldNames} \cup {ConfigT}

\* the values of a record type
TripValues(t) ==
    IF t = ConfigT THEN ConfigValues
    ELSE UNION {IF t = RecordTypeOf(f) THEN RecordValuesOf(f) ELSE {} :
                    f \in MergeFieldNames}

\* the client that loads
Trippers == {1}

\* Save(TripScope, v)
TripSave ==
    \E t \in TripTypes :
      \E v \in TripValues(t) :
        LET r == SaveResult(store, TripScope, Typed(t, v))
        IN  /\ store' = r.store
            /\ last' = NoCall
            /\ UNCHANGED <<cfg, clientVars>>

\* Remove(TripScope)
TripRemove == RemoveOver({TripScope}, FALSE)

\* Load(TripScope, &out), out a zero record of type t, of client p up to and
\* including FindId("")
TripLoadFindBy(p) ==
    /\ pc[p] = "idle"
    /\ \E t \in TripTypes :
        /\ Suspend(p, "loading",
                   [pool |-> TripScope, x |-> Typed(t, Zero(t))],
                   store[BaseScope])
        /\ last' = NoCall
        /\ UNCHANGED <<cfg, store>>

\* the rest of that Load: FindId(pool), the merge and the result
TripLoadMergeBy(p) ==
    /\ pc[p] = "loading"
    /\ LET a == arg[p]
           r == LoadResult(cfg, prev[p], store[a.pool], a.x.t, a.pool, a.x.v)
       IN  last' = [op |-> "Load", pool |-> a.pool, t |-> a.x.t,
                    outIn |-> a.x.v, defaultValues |-> prev[p],
                    out |-> r.out, err |-> r.err]
    /\ Return(p)
    /\ UNCHANGED <<cfg, store>>

TripLoadFind == \E p \in Trippers : TripLoadFindBy(p)
TripLoadMerge == \E p \in Trippers : TripLoadMergeBy(p)

TripNext ==
    \/ TripSave
    \/ TripRemove
    \/ TripLoadFind
    \/ TripLoadMerge

SpecTrip == Init /\ [][TripNext]_vars

----------------------------------------------------------------------------
(* The engine over a base scope and two pools, read with LoadPools/LoadAll.
   LoadPools touches the collection twice, FindId("") and then the query,
   and the writes may run in between: two steps *)

\* the client that runs SaveMerge, LoadPools and LoadAll, one call at a time
PoolMergers == {1}
PoolReaders == {1}

\* the filters of LoadPools: none, one pool, the base scope with a pool, and
\* every pool
PoolFilters == {{}, {"P"}, {BaseScope, "P"}, PoolScopes \ {BaseScope}}

PoolsSave == SaveOver(PoolScopes, PoolConfigValues, FALSE)
PoolsSaveMergeFind ==
    \E p \in PoolMergers : SaveMergeFindOver(p, PoolScopes, PoolConfigValues, FALSE)
PoolsSaveMergeSave == \E p \in PoolMergers : SaveMergeSaveOver(p, FALSE)
PoolsSetField == SetFieldOver(PoolScopes, PoolFieldNames, PoolFieldValues, FALSE)
PoolsSetFieldAtomic ==
    SetFieldAtomicOver(PoolScopes, PoolFieldNames, PoolFieldValues, FALSE)
PoolsRemoveField == RemoveFieldOver(PoolScopes, PoolFieldNames, FALSE)
PoolsRemove == RemoveOver(PoolScopes, FALSE)

\* LoadPools(filterPools, allVal) of client p up to and including
\* FindId(""); a nil map passed by value is refused before the collection
\* is read
LoadPoolsFindOver(p, op, F) ==
    /\ pc[p] = "idle"
    /\ \E filterPools \in F, allIn \in AllIns :
        IF ~allIn.isPtr /\ allIn.isNil
        THEN LET r == LoadPoolsResult(cfg, NoEntry, store, ConfigT, filterPools,
                                      allIn.isPtr, allIn)
             IN  /\ last' = [op |-> op, filter |-> filterPools, allIn |-> allIn,
                             defaultValues |-> NoEntry, all |-> r.all,
                             err |-> r.err]
                 /\ UNCHANGED <<cfg, store, clientVars>>
        ELSE /\ Suspend(p, op,
                        [pool |-> BaseScope,
                         x |-> [filter |-> filterPools, allIn |-> allIn]],
                        store[BaseScope])
             /\ last' = NoCall
             /\ UNCHANGED <<cfg, store>>

\* the rest of LoadPools: the query, and the merge of every entry found
\* onto the base that was read
LoadPoolsQueryOver(p, op) ==
    /\ pc[p] = op
    /\ LET a == arg[p].x
           r == LoadPoolsResult(cfg, prev[p], store, ConfigT, a.filter,
                                a.allIn.isPtr, a.allIn)
       IN  last' = [op |-> op, filter |-> a.filter, allIn |-> a.allIn,
                    defaultValues |-> prev[p], all |-> r.all, err |-> r.err]
    /\ Return(p)
    /\ UNCHANGED <<cfg, store>>

LoadPoolsFind == \E p \in PoolReaders : LoadPoolsFindOver(p, "LoadPools", PoolFilters)
LoadPoolsQuery == \E p \in PoolReaders : LoadPoolsQueryOver(p, "LoadPools")

\* LoadAll(allVal) = LoadPools(nil, allVal)
LoadAllFind == \E p \in PoolReaders : LoadPoolsFindOver(p, "LoadAll", {{}})
LoadAllQuery == \E p \in PoolReaders : LoadPoolsQueryOver(p, "LoadAll")

InitPools == InitOver(PoolScopes)

PoolsNext ==
    \/ PoolsSave
    \/ PoolsSaveMergeFind
    \/ PoolsSaveMergeSave
    \/ PoolsSetField
    \/ PoolsSetFieldAtomic
    \/ PoolsRemoveField
    \/ PoolsRemove
    \/ LoadPoolsFind
    \/ LoadPoolsQuery
    \/ LoadAllFind
    \/ LoadAllQuery

SpecPools == InitPools /\ [][PoolsNext]_vars

----------------------------------------------------------------------------
(* Two clients, each running SaveMerge once: FindId and Save are separate
   operations of the collection, and the other client may run between them *)

\* entries saved before either client starts
RaceSave ==
    /\ \A p \in Clients : pc[p] = "idle"
    /\ \E pool \in Scopes, x \in SaveInputs(RaceValues) :
        LET r == SaveResult(store, pool, x)
        IN  /\ store' = r.store
            /\ last' = [op |-> "Save", pool |-> pool, err |-> r.err]
            /\ UNCHANGED <<cfg, clientVars>>

\* SaveMerge up to and including coll.FindId(pool).One(&poolValues)
SaveMergeRead(p) ==
    /\ pc[p] = "idle"
    /\ \E pool \in Scopes, x \in SaveInputs(RaceValues) :
        IF x.t.kind # "struct"
        THEN /\ pc' = [pc EXCEPT ![p] = "done"]
             /\ arg' = [arg EXCEPT ![p] = [pool |-> pool, x |-> x]]
             /\ last' = [op |-> "SaveMerge", pool |-> pool,
                         err |-> "received object must be a struct"]
             /\ UNCHANGED <<cfg, store, prev, race>>
        ELSE /\ pc' = [pc EXCEPT ![p] = "merging"]
             /\ arg' = [arg EXCEPT ![p] = [pool |-> pool, x |-> x]]
             /\ prev' = [prev EXCEPT ![p] = store[pool]]
             /\ race' = [overlap |-> race.overlap \/
                                        \E q \in Clients \ {p} : pc[q] = "merging"]
             /\ UNCHANGED <<cfg, store, last>>

\* the rest of SaveMerge: the merge into what was read, and Save
SaveMergeWrite(p) ==
    /\ pc[p] = "merging"
    /\ LET r == SaveMergeResult(cfg, store, prev[p], arg[p].pool, arg[p].x)
       IN  /\ store' = r.store
           /\ last' = [op |-> "SaveMerge", pool |-> arg[p].pool, err |-> r.err]
    /\ pc' = [pc EXCEPT ![p] = "done"]
    /\ UNCHANGED <<cfg, arg, prev, race>>

RaceRead == \E p \in Clients : SaveMergeRead(p)
RaceWrite == \E p \in Clients : SaveMergeWrite(p)

RaceNext ==
    \/ RaceSave
    \/ RaceRead
    \/ RaceWrite

SpecRace == Init /\ [][RaceNext]_vars

----------------------------------------------------------------------------
(* Claims *)

\* the field n of entry e is present and is not the empty string
FieldHeld(e, n) ==
    /\ e.exists
    /\ n \in DOMAIN e.val.v
    /\ ~(e.val.v[n].b = "str" /\ e.val.v[n].v = "")

\* C1 (as amended): a SetFieldAtomic(P,f,v) call on a field that is present
\* and not the empty string returns applied=false and leaves the store
\* unchanged; on a field that is absent or "" it returns applied=true and
\* stores v at P.f, touching no other scope, and a v other than "" leaves
\* the field held.  So of two racing calls with values other than "" on an
\* absent field exactly the first is applied, and later calls are refused
\* for as long as the field stays held.
C1_AtomicSetOnce ==
    [][last'.op = "SetFieldAtomic" =>
        LET p == last'.pool
            n == last'.name
        IN  IF FieldHeld(store[p], n)
            THEN ~last'.applied /\ store' = store
            ELSE /\ last'.applied
                 /\ store'[p].exists
                 /\ n \in DOMAIN store'[p].val.v
                 /\ store'[p].val.v[n] = [b |-> "str", v |-> last'.value]
                 /\ (last'.value # "" => FieldHeld(store'[p], n))
                 /\ \A q \in DOMAIN store \ {p} : store'[q] = store[q]]_vars

\* C1 witness: a call with value "b" was refused because an earlier call
\* had stored "a" in the same field
C1_Witness ==
    /\ last.op = "SetFieldAtomic"
    /\ ~last.applied
    /\ last.value = "b"
    /\ last.pool = "P"
    /\ store["P"].val.v[last.name] = [b |-> "str", v |-> "a"]

\* C1 as stated: of two SetFieldAtomic calls on the same field of the same
\* scope, one directly after the other, the second is refused once the
\* first was applied, for any values
C1_Original ==
    [][(/\ last.op = "SetFieldAtomic"
        /\ last.applied
        /\ last'.op = "SetFieldAtomic"
        /\ last'.pool = last.pool
        /\ last'.name = last.name) => ~last'.applied]_vars

\* x sets foo and nothing else / sets a key of env and nothing else, under
\* the emptiness policy of the engine
SetsFooOnly(x) ==
    /\ x.t.kind = "struct"
    /\ ~isEmpty(cfg, StringT, x.v.foo)
    /\ x.v.env.isNil
SetsEnvOnly(x) ==
    /\ x.t.kind = "struct"
    /\ isEmpty(cfg, StringT, x.v.foo)
    /\ \E k \in DOMAIN x.v.env.m : ~isEmpty(cfg, StringT, x.v.env.m[k])

\* both SaveMerge calls returned, they were on the same scope, and they set
\* different fields
BothMerged ==
    /\ \A p \in Clients : pc[p] = "done"
    /\ arg[1].pool = arg[2].pool
    /\ \/ SetsFooOnly(arg[1].x) /\ SetsEnvOnly(arg[2].x)
       \/ SetsFooOnly(arg[2].x) /\ SetsEnvOnly(arg[1].x)

\* the entry stored at the scope of the calls holds what call x set
KeepsUpdate(x) ==
    LET e == store[arg[1].pool]
        s == Unmarshal(ConfigT, e.val)
    IN  /\ e.exists
        /\ SetsFooOnly(x) => s.foo = x.v.foo
        /\ SetsEnvOnly(x) =>
              \A k \in DOMAIN x.v.env.m :
                  ~isEmpty(cfg, StringT, x.v.env.m[k]) =>
                      k \in DOMAIN s.env.m /\ s.env.m[k] = x.v.env.m[k]

\* C2: when the two SaveMerge calls ran one after the other, in either
\* order, the stored entry holds the fields set by both
C2_SequentialKeepsBoth ==
    (BothMerged /\ ~race.overlap) => (KeepsUpdate(arg[1].x) /\ KeepsUpdate(arg[2].x))

\* C2 witness: both calls returned and the field one of them set is lost
C2_LostUpdate ==
    /\ BothMerged
    /\ race.overlap
    /\ ~(KeepsUpdate(arg[1].x) /\ KeepsUpdate(arg[2].x))

\* the entry Save(P, V) leaves at a scope, V of record type t
Saved(t, V) == Entry(Marshal(t, V))

\* Load of pool P into a record of type t returned, it found no entry at
\* scope "", and the entry it found at P (the collection is as its second
\* read left it) is the one Save(P, V) leaves
LoadedAfterSave(t, V) ==
    /\ last.op = "Load"
    /\ last.t = t
    /\ last.pool # BaseScope
    /\ ~last.defaultValues.exists
    /\ store[last.pool] = Saved(t, V)

\* the record values the load that just returned may have found saved
SavedValues == IF last.op = "Load" THEN TripValues(last.t) ELSE {}

\* the fields of a record type that are not companion flags
DataFields(t) == {n \in SeqToSet(t.fields) : ~HasSuffixInherited(n)}

\* a string, number or boolean the Emptiness Policy counts as set: any
\* value when AllowEmpty is set, any value but the zero value otherwise
CountsAsSet(t, v) ==
    \/ cfg.AllowEmpty
    \/ CASE t.kind = "string" -> v # ""
         [] t.kind = "int" -> v # 0
         [] t.kind = "bool" -> v # FALSE

\* what C3 (as amended) says a field of type t saved as v comes back as
ComesBack(t, v) ==
    CASE t.kind \in {"string", "int", "bool", "struct"} -> v
      [] t.kind = "ptr" ->
            IF ~v.isNil /\ ~CountsAsSet(t.elem, v.elem)
            THEN [isNil |-> TRUE, elem |-> v.elem]
            ELSE v
      [] t.kind = "slice" ->
            IF cfg.AllowEmpty THEN [isNil |-> FALSE, elems |-> v.elems]
            ELSE IF Len(v.elems) = 0 THEN [isNil |-> TRUE, elems |-> <<>>]
            ELSE v
      [] t.kind = "map" ->
            IF cfg.ShallowMerge THEN [isNil |-> FALSE, m |-> v.m]
            ELSE LET K == {k \in DOMAIN v.m : CountsAsSet(t.elem, v.m[k])}
                 IN  IF K = {} THEN [isNil |-> TRUE, m |-> EmptyFcn]
                     ELSE [isNil |-> FALSE, m |-> [k \in K |-> v.m[k]]]

\* what C3 (as amended) says the companion flag of that field comes back as
FlagComesBack(t, v) ==
    IF cfg.ShallowMerge THEN FALSE
    ELSE CASE t.kind \in {"string", "int", "bool"} -> ~CountsAsSet(t, v)
           [] t.kind = "struct" ->
                IF t.isTime THEN TRUE
                ELSE \A n \in SeqToSet(t.fields) : ~CountsAsSet(t.types[n], v[n])
           [] t.kind = "ptr" -> v.isNil \/ ~CountsAsSet(t.elem, v.elem)
           [] t.kind = "slice" -> ~cfg.AllowEmpty /\ Len(v.elems) = 0
           [] t.kind = "map" ->
                \A k \in DOMAIN v.m : ~CountsAsSet(t.elem, v.m[k])

DecodedOrZero(e) ==
    IF e.exists THEN Unmarshal(ConfigT, e.val) ELSE Zero(ConfigT)

\* the value stored at a scope, the zero value when there is no entry
StoredOrZero(s) == DecodedOrZero(store[s])

\* the override a load of scope s merges: the stored value, and with no
\* entry at s whatever the out variable held before the call
StoredOrPrior(s, outIn) ==
    IF store[s].exists THEN Unmarshal(ConfigT, store[s].val) ELSE outIn

\* C6 (as amended): LoadWithBase with a base the caller supplies and a
\* non-base scope merges onto the entry it reads at scope "" (the zero value
\* when there is none), never onto the caller's value: out is the pool
\* override (the entry it reads at the pool; with no entry, what out held
\* before) merged onto the stored base, and the caller's base variable
\* receives the stored base entry when there is one and keeps its value
\* otherwise
C6_StoredBaseIsTheBase ==
    (last.op = "LoadWithBase" /\ last.pool # BaseScope) =>
        /\ last.err = "nil"
        /\ last.out = mergeInto(cfg, ConfigT, DecodedOrZero(last.defaultValues),
                                StoredOrPrior(last.pool, last.outIn)).val
        /\ last.base = IF last.defaultValues.exists
                       THEN DecodedOrZero(last.defaultValues)
                       ELSE last.baseIn

\* C6 witness: the caller's base differs from the stored base, the pool has
\* an entry, and the result is not the merge onto the caller's base
C6_Witness ==
    /\ last.op = "LoadWithBase" /\ last.pool # BaseScope
    /\ last.defaultValues.exists /\ store[last.pool].exists
    /\ last.baseIn # DecodedOrZero(last.defaultValues)
    /\ last.out # mergeInto(cfg, ConfigT, last.baseIn, StoredOrZero(last.pool)).val

\* C6 as stated: out is the stored pool override merged onto the caller's base
C6_Original ==
    (last.op = "LoadWithBase" /\ last.pool # BaseScope) =>
        last.out = mergeInto(cfg, ConfigT, last.baseIn, StoredOrZero(last.pool)).val

\* C7 as stated, for the default engine (deep merge, AllowEmpty unset):
\* Load of a non-base scope with no entry returns no error and the base
\* value it read with the companion flag true, whatever out held before
C7_Original ==
    (/\ ~cfg.AllowEmpty /\ ~cfg.ShallowMerge
     /\ last.op = "Load" /\ last.pool # BaseScope /\ ~store[last.pool].exists) =>
        /\ last.err = "nil"
        /\ last.out = [DecodedOrZero(last.defaultValues)
                           EXCEPT !.fooinherited = TRUE]

\* C10: RemoveField returns success, removes val.f from the entry at P and
\* nothing else, and so changes nothing when P has no entry or the entry
\* has no field f; Remove on a scope with no entry returns the not-found
\* error and changes nothing; Remove on an entry deletes exactly that entry
C10_RemovalOnMissingTargets ==
    [][/\ last'.op = "RemoveField" =>
            LET p == last'.pool
                n == last'.name
            IN  /\ last'.err = "nil"
                /\ (~store[p].exists \/ n \notin DOMAIN store[p].val.v) =>
                        store' = store
                /\ store[p].exists =>
                    /\ store'[p].exists
                    /\ DOMAIN store'[p].val.v = DOMAIN store[p].val.v \ {n}
                    /\ \A k \in DOMAIN store'[p].val.v :
                            store'[p].val.v[k] = store[p].val.v[k]
                /\ \A q \in DOMAIN store \ {p} : store'[q] = store[q]
       /\ last'.op = "Remove" =>
            LET p == last'.pool
            IN  IF store[p].exists
                THEN /\ last'.err = "nil"
                     /\ ~store'[p].exists
                     /\ \A q \in DOMAIN store \ {p} : store'[q] = store[q]
                ELSE /\ last'.err = "not found"
                     /\ store' = store]_vars

\* C10 witness: Remove of a scope with no entry returned not-found while
\* another scope keeps its entry
C10_Witness ==
    /\ last.op = "Remove"
    /\ last.err = "not found"
    /\ ~store[last.pool].exists
    /\ \E q \in DOMAIN store : store[q].exists

\* an inheritance-tracking merge of records with field f returned
TrackedMerge(f) ==
    /\ last.op = "merge"
    /\ last.field = f
    /\ last.setInherited

\* C4 as stated, for a date/time field under deep merge: an empty override
\* keeps the base value and sets the flag, a non-empty override replaces
\* the value and clears the flag
C4_Original ==
    (TrackedMerge("at") /\ ~cfg.ShallowMerge) =>
        IF isEmpty(cfg, TimeT, last.pool.at)
        THEN last.out.at = last.base.at /\ last.out.atinherited
        ELSE last.out.at = last.pool.at /\ ~last.out.atinherited

\* a merge of records with a map field returned
MapMerge ==
    /\ last.op = "merge"
    /\ last.field = "env"

\* the merged map is the base map with the override's non-empty keys set and
\* its empty-valued keys removed
Tombstoned(b, o, r) ==
    /\ DOMAIN r = (DOMAIN b \ DOMAIN o) \cup
                    {k \in DOMAIN o : ~isEmpty(cfg, IntT, o[k])}
    /\ \A k \in DOMAIN r : r[k] = IF k \in DOMAIN o THEN o[k] ELSE b[k]

\* C5 (as amended): under deep merge the merged map is the base map with
\* each override key of non-empty value inserted or overwritten and each
\* override key of empty value removed; under shallow merge the override's
\* map, when not nil, replaces the base map as a whole
C5_MapTombstone ==
    MapMerge =>
        IF cfg.ShallowMerge
        THEN last.out.env = IF last.pool.env.isNil THEN last.base.env
                            ELSE last.pool.env
        ELSE Tombstoned(last.base.env.m, last.pool.env.m, last.out.env.m)

\* C5 witness: base {a:1, b:2} and override {a:0, c:2} under deep merge with
\* 0 empty give {b:2, c:2}
C5_Witness ==
    /\ MapMerge /\ ~cfg.ShallowMerge /\ ~cfg.AllowEmpty
    /\ DOMAIN last.base.env.m = {"a", "b"}
    /\ last.base.env.m["a"] = 1 /\ last.base.env.m["b"] = 2
    /\ DOMAIN last.pool.env.m = {"a", "c"}
    /\ last.pool.env.m["a"] = 0 /\ last.pool.env.m["c"] = 2
    /\ DOMAIN last.out.env.m = {"b", "c"}
    /\ last.out.env.m["b"] = 2 /\ last.out.env.m["c"] = 2

\* C5 as stated: for every base map and override map, whatever the mode
C5_Original ==
    MapMerge => Tombstoned(last.base.env.m, last.pool.env.m, last.out.env.m)

\* LoadPools with an empty filter, or LoadAll, returned without error
LoadedAll ==
    /\ last.op \in {"LoadPools", "LoadAll"}
    /\ last.filter = {}
    /\ last.err = "nil"

\* the non-base scopes that have an entry (when a load has just returned:
\* the ones its query found)
StoredPools == {s \in DOMAIN store : s # BaseScope /\ store[s].exists}

\* C8 (as amended): after any sequence of writes, LoadPools with an empty
\* or omitted filter, given a pointer to a map or an allocated map holding
\* no keys, returns a mapping whose key set is exactly {""} together with
\* the non-base scopes that have an entry when it queries them, with
\* out[""] the raw base value it read (the zero value with no base entry); a
\* map passed by value keeps the keys it held, and a nil map passed by value
\* is refused
C8_LoadAllKeys ==
    /\ LoadedAll =>
        /\ DOMAIN last.all.m =
              {BaseScope} \cup StoredPools \cup
              (IF last.allIn.isPtr THEN {} ELSE DOMAIN last.allIn.m)
        /\ last.all.m[BaseScope] = DecodedOrZero(last.defaultValues)
    /\ (last.op \in {"LoadPools", "LoadAll"} /\ last.err # "nil") =>
            (~last.allIn.isPtr /\ last.allIn.isNil)

\* C8 witness: both pools have an entry, scope "" has none, and a load into
\* a pointer returned the three keys
C8_Witness ==
    /\ LoadedAll
    /\ last.allIn.isPtr
    /\ StoredPools = {"P", "Q"}
    /\ ~last.defaultValues.exists
    /\ DOMAIN last.all.m = {"", "P", "Q"}

\* C8 as stated: the key set is exactly {""} and the stored non-base scopes
C8_Original ==
    (last.op \in {"LoadPools", "LoadAll"} /\ last.filter = {}) =>
        /\ last.err = "nil"
        /\ DOMAIN last.all.m = {BaseScope} \cup StoredPools
        /\ last.all.m[BaseScope] = DecodedOrZero(last.defaultValues)

\* C9 as stated, its last part: LoadPools with a non-empty filter, given a
\* pointer to a map, on a collection no other caller wrote while it ran,
\* returns out[""] equal to the value LoadBase returns
C9_Original ==
    (/\ last.op = "LoadPools" /\ last.filter # {} /\ last.allIn.isPtr
     /\ last.defaultValues = store[BaseScope]) =>
        /\ last.err = "nil"
        /\ BaseScope \in DOMAIN last.all.m
        /\ last.all.m[BaseScope] =
              LoadBaseResult(cfg, store[BaseScope], ConfigT, Zero(ConfigT)).out

\* a merge of records whose field f is a scalar, a pointer or a slice
ScalarFieldNames == {"foo", "n", "on", "ref", "tags"}

ScalarMerge ==
    /\ last.op = "merge"
    /\ last.field \in ScalarFieldNames

\* emptiness as C12 words it: a nil pointer or slice is empty under both
\* settings; a zero value (0, "", false), a pointer to one and a slice of
\* length zero are empty exactly when AllowEmpty is false
EmptyAsStated(f, v) ==
    CASE f = "foo" -> ~cfg.AllowEmpty /\ v = ""
      [] f = "n" -> ~cfg.AllowEmpty /\ v = 0
      [] f = "on" -> ~cfg.AllowEmpty /\ v = FALSE
      [] f = "ref" -> v.isNil \/ (~cfg.AllowEmpty /\ v.elem = 0)
      [] f = "tags" -> v.isNil \/ (~cfg.AllowEmpty /\ v.elems = <<>>)

\* C12: for every base and override of a scalar field, in either merge mode
\* and with or without inheritance tracking, the merged field is the
\* override's when the override's is non-empty and the base's otherwise,
\* a zero value being empty exactly when AllowEmpty is false and a nil
\* pointer, slice or map being empty under both settings
C12_ScalarOverride ==
    /\ ScalarMerge =>
        LET f == last.field
        IN  last.out[f] = IF EmptyAsStated(f, last.pool[f]) THEN last.base[f]
                          ELSE last.pool[f]
    /\ (last.op = "merge" /\ last.field = "env" /\ last.pool.env.isNil) =>
            last.out.env = last.base.env

\* C12 witness: merge({N:2}, {N:0}) with AllowEmpty set gives N = 0
C12_Witness ==
    /\ ScalarMerge /\ last.field = "n" /\ cfg.AllowEmpty
    /\ last.base.n = 2 /\ last.pool.n = 0 /\ last.out.n = 0

\* a merge of records with a nested record field Sub {X, Y}
SubMerge ==
    /\ last.op = "merge"
    /\ last.field = "sub"

\* a leaf of Sub is empty: it is 0 and AllowEmpty is unset
EmptyLeaf(v) == ~cfg.AllowEmpty /\ v = 0

\* C13: with ShallowMerge set, Sub is replaced as a whole by the override's
\* Sub when that is non-empty as a unit (not all leaves zero, or AllowEmpty
\* set) and kept from the base otherwise; with ShallowMerge unset, each leaf
\* of Sub is the override's when that leaf is non-empty and the base's
\* otherwise
C13_ShallowVersusDeep ==
    SubMerge =>
        IF cfg.ShallowMerge
        THEN last.out.sub =
                IF EmptyLeaf(last.pool.sub.x) /\ EmptyLeaf(last.pool.sub.y)
                THEN last.base.sub ELSE last.pool.sub
        ELSE \A l \in {"x", "y"} :
                last.out.sub[l] = IF EmptyLeaf(last.pool.sub[l])
                                  THEN last.base.sub[l] ELSE last.pool.sub[l]

\* C13 witness: base {X:1, Y:2} and override {X:0, Y:1} with 0 empty give
\* {X:0, Y:1} in shallow mode
C13_Witness ==
    /\ SubMerge /\ cfg.ShallowMerge /\ ~cfg.AllowEmpty
    /\ last.base.sub = [x |-> 1, y |-> 2]
    /\ last.pool.sub = [x |-> 0, y |-> 1]
    /\ last.out.sub = [x |-> 0, y |-> 1]

\* the override of the last merge is empty in its one field
MergedAllEmpty ==
    /\ last.op = "merge"
    /\ isEmpty(cfg, FieldTypeOf(last.field), last.pool[last.field])

\* SaveMerge of a value empty in its one field returned, on an existing
\* entry that no other caller wrote between its read and its write
SaveMergedAllEmpty ==
    /\ last.op = "SaveMerge"
    /\ last.read.exists
    /\ last.read = last.before
    /\ isEmpty(cfg, FieldTypeOf(last.field), last.x[last.field])

\* C11 (as amended): merging an override all of whose fields are empty
\* leaves every field of the base as it was, in both modes; the companion
\* flags are left as they were too, except under deep merge with
\* inheritance tracking, which sets them to true.  SaveMerge of an all-empty
\* value on an existing entry leaves the stored value as it was
C11_EmptyOverrideKeepsBase ==
    /\ MergedAllEmpty =>
        LET f == last.field
            g == PlusInherited(f)
        IN  /\ last.out[f] = last.base[f]
            /\ ~last.merged
            /\ last.out[g] = IF last.setInherited /\ ~cfg.ShallowMerge THEN TRUE
                             ELSE last.base[g]
    /\ SaveMergedAllEmpty =>
        /\ last.err = "nil"
        /\ store[AccumScope] = last.before

\* C11 witness: SaveMerge of the zero record on a stored entry whose nested
\* record is not zero returned and the entry is as it was
C11_Witness ==
    /\ SaveMergedAllEmpty
    /\ last.field = "sub"
    /\ last.x.sub = [x |-> 0, y |-> 0]
    /\ store[AccumScope] = last.before
    /\ Unmarshal(RecordTypeOf("sub"), store[AccumScope].val).sub = [x |-> 1, y |-> 2]

\* C11 as stated: the merge yields the base unchanged, with or without
\* inheritance tracking
C11_Original ==
    MergedAllEmpty => last.out = last.base

\* the record an entry holds, the zero value when there is none
CurrentOrZero(e) ==
    IF e.exists THEN Unmarshal(ConfigT, e.val) ELSE Zero(ConfigT)

\* the merge without inheritance tracking
Accumulate(b, v) == mergeIntoInherited(cfg, ConfigT, b, v, FALSE).val

\* client p completes a SaveMerge that nothing interfered with: the entry it
\* read is still the entry stored when it writes
CompletesAlone(p) ==
    /\ pc[p] = "merging"
    /\ pc'[p] = "done"
    /\ store[arg[p].pool] = prev[p]

\* client q ran SaveMerge on pool before, on a scope without entry, and no
\* two calls overlapped
RanFirstOnAbsent(q, pool) ==
    /\ pc[q] = "done"
    /\ arg[q].pool = pool
    /\ arg[q].x.t.kind = "struct"
    /\ ~prev[q].exists
    /\ ~race.overlap

C14_Step ==
    \A p \in Clients :
        CompletesAlone(p) =>
            LET pool == arg[p].pool
                v == arg[p].x.v
                cur == CurrentOrZero(store[pool])
            IN  /\ last'.err = "nil"
                /\ store'[pool] = Entry(Marshal(ConfigT, Accumulate(cur, v)))
                /\ CurrentOrZero(store'[pool]).fooinherited = cur.fooinherited
                /\ \A s \in Scopes \ {pool} : store'[s] = store[s]
                /\ \A q \in Clients \ {p} :
                      RanFirstOnAbsent(q, pool) =>
                          store'[pool] =
                              Entry(Marshal(ConfigT,
                                  Accumulate(Accumulate(Zero(ConfigT), arg[q].x.v), v)))

\* C14: SaveMerge(P, v) executed without interference stores at P exactly
\* the merge, without inheritance tracking, of v onto the current entry at
\* P (the zero value if absent); the stored companion flag keeps its
\* previously stored value whatever v's flag; and SaveMerge(P, v1) followed
\* by SaveMerge(P, v2) on a scope without entry stores
\* merge(merge(zero, v1), v2)
C14_SaveMergeAccumulates == [][C14_Step]_vars

\* C14 witness: on a scope without entry, SaveMerge of {Foo:"b",
\* FooInherited:true, Env:{k1:""}} and then of {Env:{k1:"a"}} ran one after
\* the other, and the entry holds {Foo:"b", FooInherited:false, Env:{k1:"a"}}
C14_Witness ==
    /\ ~race.overlap
    /\ \E p \in Clients : \E q \in Clients \ {p} :
        /\ pc[p] = "done" /\ pc[q] = "done"
        /\ arg[p].pool = "P" /\ arg[q].pool = "P"
        /\ arg[q].x.t.kind = "struct" /\ arg[p].x.t.kind = "struct"
        /\ ~prev[q].exists /\ prev[p].exists
        /\ arg[q].x.v.foo = "b" /\ arg[q].x.v.fooinherited
        /\ arg[p].x.v.foo = "" /\ ~arg[p].x.v.env.isNil
    /\ store["P"].exists
    /\ CurrentOrZero(store["P"]) =
          [foo |-> "b", fooinherited |-> FALSE,
           env |-> [isNil |-> FALSE, m |-> [k \in {"k1"} |-> "a"]]]

====
